---- MODULE Spec2Model ----
(***************************************************************************)
(* Inspecta: the workflow executor (Executor/src/workflowexecutor.py) as a *)
(* state machine.  The business store (DataStore/database.py), the        *)
(* LangGraph checkpoint store and every background ainvoke task are state; *)
(* handle_incident_upload, get_status and the steps of a background        *)
(* execution are the actions.                                              *)
(*                                                                         *)
(* The chunked transcription pipeline (TranscriptionAgent/src/             *)
(* groq_service.py) is a second state machine, TranscribeSpec, on its own  *)
(* variables: one call of process_incident on one audio file.              *)
(*                                                                         *)
(* LangGraph is a library: its graph runner is modelled by what it does    *)
(* with the graph this repository builds (one checkpoint per superstep,    *)
(* the input written through the __start__ node, reducers per channel,     *)
(* a node's retry policy).  The retry policy is taken as declared at      *)
(* workflowexecutor.py:71 (max_attempts 3).                                *)
(***************************************************************************)
EXTENDS Integers, Sequences, FiniteSets, TLC

VARIABLES
    incidents,       \* business store: incidents table, id -> row or NoRow
    incident_tasks,  \* business store: incident_tasks rows per incident id
    checkpoint,      \* checkpoint store: thread_id -> latest checkpoint or NoCheckpoint
    runs,            \* the asyncio tasks created by handle_incident_upload, in creation order
    response,        \* what the API call of this step returns to its caller
    asset,           \* the audio file handed to process_incident: its size and duration
    planner,         \* get_audio_chunks: where it is, its loop variables, its chunks
    files,           \* the file system: path -> the stretch of audio the file holds
    pool,            \* the thread pool of process_incident and the results it collects
    merged           \* what merge_incident_results returned

workflow_vars == <<incidents, incident_tasks, checkpoint, runs, response>>

pipeline_vars == <<asset, planner, files, pool, merged>>

vars == <<incidents, incident_tasks, checkpoint, runs, response,
          asset, planner, files, pool, merged>>

----------------------------------------------------------------------------
(* Bounds *)

\* accepted handle_incident_upload calls (each creates one background task)
MaxStarts == 2

----------------------------------------------------------------------------
(* Program constants *)

EXTRACT_AUDIO_NODE == "extract_audio"
TRANSCRIBE_NODE == "transcribe"
GENERATE_TASKS_NODE == "generate_tasks"
START == "__start__"
END == "__end__"

\* retry_policy = {"max_attempts": 3, "backoff_factor": 2}
max_attempts == 3

Companies == {1, 2}

\* the inspections in the store and the company each belongs to
inspections == [insp \in {"insp1", "insp2"} |-> IF insp = "insp1" THEN 1 ELSE 2]

\* the inspections uploads are made to
UploadInspections == {"insp1"}

\* incident ids: 1 is in the store from the start, the next MaxStarts are the
\* ones create_incident can hand out, the last one never exists
IncidentIds == 1..(MaxStarts + 2)

\* no API call returns in this step
no_response == [op |-> "none"]

NoRow == [k \in {} |-> 0]
NoCheckpoint == [k \in {} |-> 0]
EmptyState == [k \in {} |-> 0]

\* class IncidentState: the declared channels, and the one with the operator.add reducer
StateFields == {"company_id", "inspection_id", "incident_id", "video_path",
                "transcript", "generated_tasks"}
AppendFields == {"generated_tasks"}

Nodes == {EXTRACT_AUDIO_NODE, TRANSCRIBE_NODE, GENERATE_TASKS_NODE}

----------------------------------------------------------------------------
(* The graph: _build_graph *)

\* faulty variant of next_node: the edge out of extract_audio skips transcribe
next_node_skipping(n) ==
    CASE n = START -> EXTRACT_AUDIO_NODE
      [] n = EXTRACT_AUDIO_NODE -> GENERATE_TASKS_NODE
      [] n = TRANSCRIBE_NODE -> GENERATE_TASKS_NODE
      [] OTHER -> END

\* builder.add_edge(...): START -> extract_audio -> transcribe -> generate_tasks -> END
next_node(n) ==
    CASE n = START -> EXTRACT_AUDIO_NODE
      [] n = EXTRACT_AUDIO_NODE -> TRANSCRIBE_NODE
      [] n = TRANSCRIBE_NODE -> GENERATE_TASKS_NODE
      [] OTHER -> END

\* faulty variant of node_max_attempts: the policy gives up after two attempts
node_max_attempts_two(n) ==
    IF n \in {TRANSCRIBE_NODE, GENERATE_TASKS_NODE} THEN max_attempts - 1 ELSE 1

\* builder.add_node(..., retry=retry_policy): extract_audio is added without one
node_max_attempts(n) ==
    IF n \in {TRANSCRIBE_NODE, GENERATE_TASKS_NODE} THEN max_attempts ELSE 1

\* StateSnapshot.next for a run about to execute node n
pointer(n) == IF n = END THEN <<>> ELSE <<n>>

\* a state delta merged into the channels: declared keys only, generated_tasks
\* through operator.add, every other channel overwritten
apply_writes(values, delta) ==
    LET keys == DOMAIN values \cup (DOMAIN delta \cap StateFields)
    IN [k \in keys |->
          IF k \in DOMAIN delta
          THEN IF k \in AppendFields /\ k \in DOMAIN values
               THEN values[k] \o delta[k]
               ELSE delta[k]
          ELSE values[k]]

----------------------------------------------------------------------------
(* The checkpoint store *)

\* faulty variant of put_checkpoint: the node pointer is written, the state of
\* the previous checkpoint kept
put_checkpoint_torn(store, thread_id, next, values) ==
    [store EXCEPT ![thread_id] =
        [next |-> next,
         values |-> IF store[thread_id] = NoCheckpoint THEN EmptyState
                    ELSE store[thread_id].values]]

\* faulty variant of put_checkpoint: one checkpoint shared by all threads
put_checkpoint_global(store, thread_id, next, values) ==
    [t \in DOMAIN store |-> [next |-> next, values |-> values]]

\* checkpointer.put: one write of (next, values) for the thread
put_checkpoint(store, thread_id, next, values) ==
    [store EXCEPT ![thread_id] = [next |-> next, values |-> values]]

\* workflow.aget_state(config): one read; an unknown thread is an empty snapshot
aget_state(thread_id) ==
    IF checkpoint[thread_id] = NoCheckpoint
    THEN [next |-> <<>>, values |-> EmptyState]
    ELSE checkpoint[thread_id]

----------------------------------------------------------------------------
(* The business store *)

row_visible(company_id, incident_id) ==
    /\ incident_id \in DOMAIN incidents
    /\ incidents[incident_id] # NoRow
    /\ incidents[incident_id].company_id = company_id

verify_inspection_ownership(company_id, inspection_id) ==
    /\ inspection_id \in DOMAIN inspections
    /\ inspections[inspection_id] = company_id

verify_incident_ownership(company_id, incident_id) ==
    row_visible(company_id, incident_id)

get_incident_progress(company_id, incident_id) ==
    row_visible(company_id, incident_id)

\* the id INSERT ... RETURNING id gives: the first one not used yet
new_incident_id == CHOOSE i \in IncidentIds :
    /\ incidents[i] = NoRow
    /\ \A j \in IncidentIds : j < i => incidents[j] # NoRow

\* faulty variant of create_incident: the row is not committed
create_incident_unsaved(table, incident_id, company_id, inspection_id, video_url) ==
    table

create_incident(table, incident_id, company_id, inspection_id, video_url) ==
    [table EXCEPT ![incident_id] =
        [company_id |-> company_id, inspection_id |-> inspection_id,
         video_url |-> video_url, audio_url |-> <<>>]]

update_incident_audio(table, company_id, incident_id, audio_path) ==
    IF row_visible(company_id, incident_id)
    THEN [table EXCEPT ![incident_id].audio_url = audio_path]
    ELSE table

bulk_add_incident_tasks(table, incident_id, tasks) ==
    [table EXCEPT ![incident_id] = @ \o tasks]

----------------------------------------------------------------------------
(* The nodes: what each returns as its state delta *)

SAMPLE_TRANSCRIPT == "Sample text from the video audio..."
SAMPLE_TASKS == <<"Fix Damaged Wire">>

audio_path_of(incident_id) == <<"audio", incident_id>>

\* _extract_audio_node: return {"audio_path": local_audio_path}
\* _transcribe_node:    return {"transcript": transcript}
\* _generate_tasks_node: return {"generated_tasks": tasks}
node_delta(n, state) ==
    CASE n = EXTRACT_AUDIO_NODE -> [audio_path |-> audio_path_of(state.incident_id)]
      [] n = TRANSCRIBE_NODE -> [transcript |-> SAMPLE_TRANSCRIPT]
      [] OTHER -> [generated_tasks |-> SAMPLE_TASKS]

----------------------------------------------------------------------------
(* handle_incident_upload *)

\* the file of the k-th accepted upload (get-upload-url names every upload afresh)
file_url_of(k) == <<"upload", k>>

initial_state_of(company_id, inspection_id, incident_id, file_url) ==
    [company_id |-> company_id, inspection_id |-> inspection_id,
     incident_id |-> incident_id, video_path |-> file_url,
     transcript |-> "", generated_tasks |-> <<>>]

\* faulty variant of create_task: the workflow is awaited, so the call comes back
\* with the run over
await_ainvoke(initial_state, seen) ==
    [input |-> initial_state, thread |-> initial_state.incident_id,
     pc |-> "completed", node |-> END, attempts |-> 0,
     channels |-> apply_writes(apply_writes(seen.values, initial_state),
                               [transcript |-> SAMPLE_TRANSCRIPT,
                                generated_tasks |-> SAMPLE_TASKS]),
     done |-> <<EXTRACT_AUDIO_NODE, TRANSCRIBE_NODE, GENERATE_TASKS_NODE>>,
     seen_transcribe |-> (seen.next = <<TRANSCRIBE_NODE>>)]

\* asyncio.create_task(self.workflow.ainvoke(initial_state, config)): the task is
\* scheduled and has run nothing yet.  done and seen_transcribe are history
\* variables: the nodes this run has completed, and whether the thread's
\* checkpoint was at transcribe when the call was made.
create_task(initial_state, seen) ==
    [input |-> initial_state, thread |-> initial_state.incident_id,
     pc |-> "scheduled", node |-> START, attempts |-> 0,
     channels |-> EmptyState, done |-> <<>>,
     seen_transcribe |-> (seen.next = <<TRANSCRIBE_NODE>>)]

upload_ok(incident_id, run) ==
    [op |-> "upload", result |-> "ok", incident_id |-> incident_id,
     node_work |-> Len(run.done) + run.attempts]

upload_denied ==
    [op |-> "upload", result |-> "PermissionError", incident_id |-> 0, node_work |-> 0]

\* faulty variant of handle_incident_upload: the incident supplied by the
\* caller is not checked
handle_incident_upload_unchecked(company_id, inspection_id, existing_incident_id) ==
    IF ~verify_inspection_ownership(company_id, inspection_id)
    THEN /\ response' = upload_denied
         /\ UNCHANGED <<incidents, incident_tasks, checkpoint, runs>>
    ELSE /\ Len(runs) < MaxStarts
         /\ LET file_url == file_url_of(Len(runs) + 1)
                incident_id == IF existing_incident_id # 0 THEN existing_incident_id
                               ELSE new_incident_id
                initial_state == initial_state_of(company_id, inspection_id,
                                                  incident_id, file_url)
                run == create_task(initial_state, aget_state(incident_id))
            IN /\ incidents' = IF existing_incident_id # 0 THEN incidents
                               ELSE create_incident(incidents, incident_id, company_id,
                                                    inspection_id, file_url)
               /\ runs' = Append(runs, run)
               /\ response' = upload_ok(incident_id, run)
         /\ UNCHANGED <<incident_tasks, checkpoint>>

\* existing_incident_id = 0 stands for None (the falsy default)
handle_incident_upload(company_id, inspection_id, existing_incident_id) ==
    IF ~verify_inspection_ownership(company_id, inspection_id)
    THEN /\ response' = upload_denied
         /\ UNCHANGED <<incidents, incident_tasks, checkpoint, runs>>
    ELSE IF existing_incident_id # 0
            /\ ~verify_incident_ownership(company_id, existing_incident_id)
    THEN /\ response' = upload_denied
         /\ UNCHANGED <<incidents, incident_tasks, checkpoint, runs>>
    ELSE /\ Len(runs) < MaxStarts
         /\ LET file_url == file_url_of(Len(runs) + 1)
                incident_id == IF existing_incident_id # 0 THEN existing_incident_id
                               ELSE new_incident_id
                initial_state == initial_state_of(company_id, inspection_id,
                                                  incident_id, file_url)
                run == create_task(initial_state, aget_state(incident_id))
            IN /\ incidents' = IF existing_incident_id # 0 THEN incidents
                               ELSE create_incident(incidents, incident_id, company_id,
                                                    inspection_id, file_url)
               /\ runs' = Append(runs, run)
               /\ response' = upload_ok(incident_id, run)
         /\ UNCHANGED <<incident_tasks, checkpoint>>

----------------------------------------------------------------------------
(* The background execution of one run: workflow.ainvoke(initial_state, config) *)

\* the loop opens: the thread's latest checkpoint is loaded into the run's channels
LoadCheckpoint(r) ==
    /\ runs[r].pc = "scheduled"
    /\ runs' = [runs EXCEPT ![r].pc = "loaded",
                            ![r].channels = aget_state(runs[r].thread).values]
    /\ response' = no_response
    /\ UNCHANGED <<incidents, incident_tasks, checkpoint>>

\* the input is not None: it goes to the __start__ channel and the "input"
\* checkpoint is saved, with __start__ the next node
PutInputCheckpoint(r) ==
    /\ runs[r].pc = "loaded"
    /\ runs' = [runs EXCEPT ![r].pc = "input", ![r].node = START]
    /\ checkpoint' = put_checkpoint(checkpoint, runs[r].thread, pointer(START),
                                    runs[r].channels)
    /\ response' = no_response
    /\ UNCHANGED <<incidents, incident_tasks>>

\* superstep 0: __start__ writes the input to the state channels through their
\* reducers and the checkpoint points at the entry node; the next superstep
\* then calls the entry node's function
RunStartNode(r) ==
    /\ runs[r].pc = "input"
    /\ LET values == apply_writes(runs[r].channels, runs[r].input)
       IN /\ runs' = [runs EXCEPT ![r].pc = "in_node",
                                  ![r].node = next_node(START),
                                  ![r].attempts = 1,
                                  ![r].channels = values]
          /\ checkpoint' = put_checkpoint(checkpoint, runs[r].thread,
                                          pointer(next_node(START)), values)
    /\ response' = no_response
    /\ UNCHANGED <<incidents, incident_tasks>>

\* the node function returns: its write to the business store, its delta merged
\* into the channels, the checkpoint of the superstep, and the call of the next
\* node's function (or the end of the run)
NodeSucceeds(r) ==
    /\ runs[r].pc = "in_node"
    /\ LET run == runs[r]
           n == run.node
           state == run.channels
           values == apply_writes(state, node_delta(n, state))
           nxt == next_node(n)
       IN /\ incidents' =
                IF n = EXTRACT_AUDIO_NODE
                THEN update_incident_audio(incidents, state.company_id, state.incident_id,
                                           audio_path_of(state.incident_id))
                ELSE incidents
          /\ incident_tasks' =
                IF n = GENERATE_TASKS_NODE
                THEN bulk_add_incident_tasks(incident_tasks, state.incident_id, SAMPLE_TASKS)
                ELSE incident_tasks
          /\ runs' = [runs EXCEPT ![r].pc = IF nxt = END THEN "completed" ELSE "in_node",
                                  ![r].node = nxt,
                                  ![r].attempts = IF nxt = END THEN 0 ELSE 1,
                                  ![r].channels = values,
                                  ![r].done = Append(@, n)]
          /\ checkpoint' = put_checkpoint(checkpoint, run.thread, pointer(nxt), values)
    /\ response' = no_response

\* the node function raises: while the node's policy allows, it is called again
\* after the backoff; else the exception leaves ainvoke and the task ends with
\* it.  Nothing is written to either store.
NodeFails(r) ==
    /\ runs[r].pc = "in_node"
    /\ runs' = [runs EXCEPT
                  ![r].pc = IF runs[r].attempts < node_max_attempts(runs[r].node)
                            THEN "in_node" ELSE "failed",
                  ![r].attempts = IF runs[r].attempts < node_max_attempts(runs[r].node)
                                  THEN @ + 1 ELSE @]
    /\ response' = no_response
    /\ UNCHANGED <<incidents, incident_tasks, checkpoint>>

----------------------------------------------------------------------------
(* get_status *)

messages == [n \in Nodes |->
    CASE n = EXTRACT_AUDIO_NODE -> "Extracting audio from video..."
      [] n = TRANSCRIBE_NODE -> "AI is transcribing speech..."
      [] OTHER -> "Generating inspection tasks..."]

status_data(incident_id, status_key, message) ==
    [kind |-> "ok", incident_id |-> incident_id, status |-> status_key,
     display_message |-> message, is_finished |-> (status_key = "completed")]

PermissionError == [kind |-> "PermissionError"]

\* faulty variant of status_of: the table is not consulted, every node gets
\* the first message
status_of_unmapped(incident_id) ==
    LET state == aget_state(incident_id)
    IN IF state.next = <<>>
       THEN IF state.values = EmptyState
            THEN status_data(incident_id, "queued",
                             "Incident is in queue for processing...")
            ELSE status_data(incident_id, "completed",
                             "Analysis complete! Tasks generated.")
       ELSE status_data(incident_id, state.next[1], "Extracting audio from video...")

\* get_status, steps 2 and 3: the thread's snapshot is read once and the status
\* derived from it
status_of(incident_id) ==
    LET state == aget_state(incident_id)
    IN IF state.next = <<>>
       THEN IF state.values = EmptyState
            THEN status_data(incident_id, "queued",
                             "Incident is in queue for processing...")
            ELSE status_data(incident_id, "completed",
                             "Analysis complete! Tasks generated.")
       ELSE LET current_node == state.next[1]
            IN status_data(incident_id, current_node,
                           IF current_node \in DOMAIN messages
                           THEN messages[current_node] ELSE "Processing...")

\* faulty variant of get_status: an incident that is in no row is reported as
\* not found instead of refused
get_status_leaky(company_id, incident_id) ==
    IF incidents[incident_id] = NoRow
    THEN [kind |-> "LookupError"]
    ELSE IF ~get_incident_progress(company_id, incident_id)
    THEN PermissionError
    ELSE status_of(incident_id)

\* get_status: the ownership check first; a caller that fails it gets nothing
get_status(company_id, incident_id) ==
    IF ~get_incident_progress(company_id, incident_id)
    THEN PermissionError
    ELSE status_of(incident_id)

\* main.py: PermissionError becomes 403 Forbidden, any other exception 500
get_status_endpoint(company_id, incident_id) ==
    LET status == get_status(company_id, incident_id)
    IN CASE status.kind = "ok" -> [code |-> 200, body |-> status]
         [] status.kind = "PermissionError" ->
                [code |-> 403, body |-> [detail |-> "Forbidden"]]
         [] OTHER -> [code |-> 500, body |-> [detail |-> status.kind]]

\* faulty variant of GetStatus: the query is served only when no node of the
\* incident's thread is being executed
GetStatus_waiting(company_id, incident_id) ==
    /\ \A r \in DOMAIN runs :
          runs[r].thread = incident_id => runs[r].pc # "in_node"
    /\ response' = [op |-> "status", company_id |-> company_id,
                    http |-> get_status_endpoint(company_id, incident_id)]
    /\ UNCHANGED <<incidents, incident_tasks, checkpoint, runs>>

\* GET /incidents/{incident_id}/status by a caller of company_id
GetStatus(company_id, incident_id) ==
    /\ response' = [op |-> "status", company_id |-> company_id,
                    http |-> get_status_endpoint(company_id, incident_id)]
    /\ UNCHANGED <<incidents, incident_tasks, checkpoint, runs>>

\* one step of the background execution of run r
RunStep(r) ==
    \/ LoadCheckpoint(r)
    \/ PutInputCheckpoint(r)
    \/ RunStartNode(r)
    \/ NodeSucceeds(r)
    \/ NodeFails(r)


----------------------------------------------------------------------------
(* The chunked transcription pipeline: TranscriptionAgent/src/groq_service.py *)
(* (AudioExtractorAgent/src/groq_client.py holds the same code under the      *)
(* names get_audio_chunks, process_chunk, merge_results, transcribe).         *)
(*                                                                            *)
(* Times are integers in milliseconds; the code's seconds are floats whose    *)
(* values here are whole milliseconds (start / 1000.0, the 0.5 s buffer).     *)
(* File sizes are whole megabytes, so file_size / (1024 * 1024) is exact, and *)
(* int() of the positive product is its floor.                                *)

MAX_FILE_SIZE_MB == 25
OVERLAP_SEC == 5

\* 1024 * 1024, the bytes of one MB in get_audio_chunks
MB == 1024 * 1024

\* the 0.5 s buffer of the merger, in ms
BUFFER_MS == 500

\* the iterations the planning loop is followed for
MaxChunks == 4

\* the segments one provider response holds at most
MaxSegments == 2

\* the assets: os.path.getsize(file_path) and len(audio)
FileSizes == {20 * MB, 25 * MB, 40 * MB}
Durations == {4000, 8889, 23112}

\* paths: the asset's own file, and the k-th NamedTemporaryFile
file_path == 0
temp_file(k) == k

\* the empty dict merge_incident_results returns for no results; also the value
\* of merged while nothing has been returned
NoResult == [k \in {} |-> 0]

Last(s) == s[Len(s)]

Min(a, b) == IF a < b THEN a ELSE b

\* ---- get_audio_chunks ----

\* faulty variant of chunk_duration_of: the estimate is rounded up
chunk_duration_of_rounded_up(file_size, duration_ms, max_size_mb) ==
    (max_size_mb * 9 * duration_ms + 10 * (file_size \div MB) - 1)
        \div (10 * (file_size \div MB))

\* chunk_duration_ms = int((max_size_mb * 0.9) * (duration_ms / (file_size / MB)))
chunk_duration_of(file_size, duration_ms, max_size_mb) ==
    (max_size_mb * 9 * duration_ms) \div (10 * (file_size \div MB))

\* faulty variant of next_start: the overlap is added instead of taken off
next_start_gap(start, chunk_duration_ms, overlap_ms) ==
    start + chunk_duration_ms + overlap_ms

\* faulty variant of next_start: the next chunk starts where this one ends
next_start_abutting(start, chunk_duration_ms, overlap_ms) ==
    start + chunk_duration_ms

\* start += chunk_duration_ms - overlap_ms
next_start(start, chunk_duration_ms, overlap_ms) ==
    start + chunk_duration_ms - overlap_ms

\* faulty variant of single_chunk: the small file is exported like a chunk
single_chunk_exported(path) ==
    <<[path |-> temp_file(1), start_offset_ms |-> 0, is_temp |-> TRUE]>>

\* return [{"path": file_path, "start_offset_sec": 0, "is_temp": False}]
single_chunk(path) ==
    <<[path |-> path, start_offset_ms |-> 0, is_temp |-> FALSE]>>

\* faulty variant of needs_chunking: a file of exactly the limit is sent whole
needs_chunking_above(file_size, max_size_mb) ==
    file_size > max_size_mb * MB

\* not (file_size < max_size_mb * 1024 * 1024)
needs_chunking(file_size, max_size_mb) ==
    ~(file_size < max_size_mb * MB)

\* exported is a history variable: the stretch of audio of every export so far
\* max_size_mb is a history variable: the limit get_audio_chunks was called with
idle_planner ==
    [pc |-> "idle", start |-> 0, chunk_duration_ms |-> 0, overlap_ms |-> 0,
     max_size_mb |-> 0, chunks |-> <<>>, exported |-> <<>>]

\* get_audio_chunks(file_path, max_size_mb, overlap_sec) up to the loop: the
\* size test, and the estimate
get_audio_chunks(max_size_mb, overlap_sec) ==
    /\ planner.pc = "idle"
    /\ planner' =
          IF ~needs_chunking(asset.file_size, max_size_mb)
          THEN [planner EXCEPT !.pc = "planned", !.max_size_mb = max_size_mb,
                                !.chunks = single_chunk(file_path)]
          ELSE [planner EXCEPT
                  !.pc = "planning",
                  !.max_size_mb = max_size_mb,
                  !.start = 0,
                  !.chunk_duration_ms =
                      chunk_duration_of(asset.file_size, asset.duration_ms,
                                        max_size_mb),
                  !.overlap_ms = overlap_sec * 1000]
    /\ UNCHANGED <<asset, files, pool, merged>>

\* the call of process_incident: get_audio_chunks(file_path, MAX_FILE_SIZE_MB,
\* OVERLAP_SEC)
PlanStart == get_audio_chunks(MAX_FILE_SIZE_MB, OVERLAP_SEC)

\* the size limits (MB) and overlaps (s) get_audio_chunks is called with when
\* it is called on its own
SizeLimits == {10, MAX_FILE_SIZE_MB}
Overlaps == {0, 2, OVERLAP_SEC}

\* a call of get_audio_chunks with any limit and overlap
PlanStartWith ==
    \E max_size_mb \in SizeLimits, overlap_sec \in Overlaps :
        get_audio_chunks(max_size_mb, overlap_sec)

\* faulty variant of temp_chunk: every chunk is said to start at 0
temp_chunk_unshifted(path, start) ==
    [path |-> path, start_offset_ms |-> 0, is_temp |-> TRUE]

\* the dict appended for an exported slice
temp_chunk(path, start) ==
    [path |-> path, start_offset_ms |-> start, is_temp |-> TRUE]

\* one pass of the while loop: the test of start, the slice exported to a new
\* temporary file, the chunk appended, the break at the end of the audio, the
\* step of start
PlanChunk ==
    /\ planner.pc = "planning"
    /\ Len(planner.chunks) < MaxChunks
    /\ IF planner.start < asset.duration_ms
       THEN LET start == planner.start
                end == Min(start + planner.chunk_duration_ms, asset.duration_ms)
                path == temp_file(Len(planner.chunks) + 1)
                chunk == temp_chunk(path, start)
            IN /\ files' = (path :> [from |-> start, to |-> end]) @@ files
               /\ planner' =
                     IF end = asset.duration_ms
                     THEN [planner EXCEPT
                             !.pc = "planned",
                             !.chunks = Append(@, chunk),
                             !.exported = Append(@, [from |-> start, to |-> end])]
                     ELSE [planner EXCEPT
                             !.chunks = Append(@, chunk),
                             !.exported = Append(@, [from |-> start, to |-> end]),
                             !.start = next_start(start, planner.chunk_duration_ms,
                                                  planner.overlap_ms)]
       ELSE /\ planner' = [planner EXCEPT !.pc = "planned"]
            /\ files' = files
    /\ UNCHANGED <<asset, pool, merged>>

\* a pass of the while loop in which chunk_segment.export raises (the encoder
\* fails, the disk is full): the temporary file of the pass was created and
\* closed before, the exception leaves get_audio_chunks and process_incident,
\* which have no handler
ExportFails ==
    /\ planner.pc = "planning"
    /\ Len(planner.chunks) < MaxChunks
    /\ planner.start < asset.duration_ms
    /\ LET path == temp_file(Len(planner.chunks) + 1)
       IN files' = (path :> [from |-> planner.start, to |-> planner.start]) @@ files
    /\ planner' = [planner EXCEPT !.pc = "raised"]
    /\ pool' = [pool EXCEPT !.raised = "ExportError"]
    /\ UNCHANGED <<asset, merged>>

\* ---- process_chunk ----

\* the times a provider response can carry, relative to the start of its file
SegmentTimes == {1600, 2000, 2900, 10200}

\* the language the provider reports
LANGUAGE == "mr"

\* the segment lists the provider can answer with for audio of the given
\* length: up to MaxSegments segments in time order, none starting before the
\* one before it ends
ProviderSegments(length) ==
    LET Segs == {<<a, b>> \in SegmentTimes \X SegmentTimes : a < b /\ b <= length}
    IN UNION {{s \in [1..n -> Segs] :
                  \A k \in 1..(n - 1) : s[k][2] <= s[k + 1][1]} : n \in 0..MaxSegments}

\* what the call to the provider does: it answers with segments, or it raises
ProviderReplies(length) ==
    {[ok |-> TRUE, segs |-> s] : s \in ProviderSegments(length)}
        \cup {[ok |-> FALSE, segs |-> <<>>]}

\* response.to_dict() of the call for chunk i: segment k carries the words
\* spoken in it
provider_response(i, segs) ==
    [segments |-> [k \in 1..Len(segs) |->
                      [start |-> segs[k][1], end |-> segs[k][2], text |-> <<i, k>>]],
     text |-> [k \in 1..Len(segs) |-> <<i, k>>],
     language |-> LANGUAGE]

\* return {"segments": [], "text": "", "error": str(e)}
error_result == [segments |-> <<>>, text |-> <<>>, error |-> "provider error"]

\* faulty variant of offset_segments: only the start is moved
offset_segments_start_only(segments, offset) ==
    [k \in 1..Len(segments) |-> [segments[k] EXCEPT !.start = @ + offset]]

\* the loop over res_dict["segments"]: start and end are moved by the offset
offset_segments(segments, offset) ==
    [k \in 1..Len(segments) |->
        [segments[k] EXCEPT !.start = @ + offset, !.end = @ + offset]]

\* process_chunk: the provider's answer with its segments on the asset's
\* timeline, or the tagged empty result when the call raised
process_chunk(chunk_data, i, reply) ==
    IF ~reply.ok
    THEN error_result
    ELSE LET res_dict == provider_response(i, reply.segs)
         IN [res_dict EXCEPT
               !.segments = offset_segments(@, chunk_data.start_offset_ms)]

\* faulty variant of remove_chunk_file: the file is left in place
remove_chunk_file_never(store, chunk_data) == store

\* faulty variant of remove_chunk_file: the file is removed whether or not it
\* is a temporary one
remove_chunk_file_always(store, chunk_data) ==
    [p \in DOMAIN store \ {chunk_data.path} |-> store[p]]

\* finally: the chunk's file is removed if it is a temporary one and exists
remove_chunk_file(store, chunk_data) ==
    IF chunk_data.is_temp /\ chunk_data.path \in DOMAIN store
    THEN [p \in DOMAIN store \ {chunk_data.path} |-> store[p]]
    ELSE store

\* replies is a history variable: what the provider did in the call of each
\* chunk; raised is the exception process_incident ended with, if any
idle_pool == [slots |-> <<>>, replies |-> <<>>, completion |-> <<>>,
              results |-> <<>>, returned |-> FALSE, raised |-> "none"]

\* a worker of the pool finishes the call for chunk i; slots holds the result
\* of every finished call under its chunk's index, completion the order the
\* calls finished in
ProcessChunk(i) ==
    /\ planner.pc = "planned"
    /\ i \in DOMAIN planner.chunks
    /\ i \notin DOMAIN pool.slots
    /\ LET chunk_data == planner.chunks[i]
           length == files[chunk_data.path].to - files[chunk_data.path].from
       IN \E reply \in ProviderReplies(length) :
             /\ pool' = [pool EXCEPT
                           !.slots = (i :> process_chunk(chunk_data, i, reply)) @@ @,
                           !.replies = (i :> reply) @@ @,
                           !.completion = Append(@, i)]
             /\ files' = remove_chunk_file(files, chunk_data)
    /\ UNCHANGED <<asset, planner, merged>>

\* ---- process_incident: the results collected, and merged ----

\* faulty variant of executor_map: the results in the order the calls finished
as_completed(slots, completion) ==
    [k \in 1..Len(completion) |-> slots[completion[k]]]

\* list(executor.map(...)): result i is the result of chunk i
executor_map(slots, completion) ==
    [i \in 1..Len(completion) |-> slots[i]]

\* faulty variant of overlap_dropped: no buffer
overlap_dropped_unbuffered(i, seg, last_end_time) ==
    i > 0 /\ seg.start < last_end_time

\* faulty variant of overlap_dropped: every segment is kept
overlap_dropped_never(i, seg, last_end_time) ==
    FALSE

\* if i > 0 and seg["start"] < (last_end_time - 0.5): continue
overlap_dropped(i, seg, last_end_time) ==
    i > 0 /\ seg.start < last_end_time - BUFFER_MS

\* the segments of result i (enumerate counts from 0) that are kept
new_segments_of(i, res, last_end_time) ==
    SelectSeq(res.segments, LAMBDA seg : ~overlap_dropped(i, seg, last_end_time))

\* " ".join of the segments' texts, as the list of the joined texts
texts_of(segments) == [k \in 1..Len(segments) |-> segments[k].text]

\* faulty variant of merge_loop: last_end_time is that of the result before
\* only, so a result that adds nothing sets it back to 0
RECURSIVE merge_loop_previous_only(_, _, _, _)
merge_loop_previous_only(results, i, last_end_time, acc) ==
    IF i >= Len(results)
    THEN acc
    ELSE LET new_segments == new_segments_of(i, results[i + 1], last_end_time)
         IN IF new_segments # <<>>
            THEN merge_loop_previous_only(results, i + 1, Last(new_segments).end,
                            [acc EXCEPT !.segments = @ \o new_segments,
                                        !.text = @ \o texts_of(new_segments)])
            ELSE merge_loop_previous_only(results, i + 1, 0, acc)

\* the loop of merge_incident_results from result i on
RECURSIVE merge_loop(_, _, _, _)
merge_loop(results, i, last_end_time, acc) ==
    IF i >= Len(results)
    THEN acc
    ELSE LET new_segments == new_segments_of(i, results[i + 1], last_end_time)
         IN IF new_segments # <<>>
            THEN merge_loop(results, i + 1, Last(new_segments).end,
                            [acc EXCEPT !.segments = @ \o new_segments,
                                        !.text = @ \o texts_of(new_segments)])
            ELSE merge_loop(results, i + 1, last_end_time, acc)

\* merge_incident_results / merge_results
merge_incident_results(results, overlap_sec) ==
    IF results = <<>>
    THEN NoResult
    ELSE merge_loop(results, 0, 0,
            [text |-> <<>>,
             segments |-> <<>>,
             language |-> IF "language" \in DOMAIN results[1]
                          THEN results[1].language ELSE "en",
             duration |-> IF Last(results).segments # <<>>
                          THEN Last(Last(results).segments).end ELSE 0])

\* process_incident / transcribe once every call of the pool has finished: the
\* results are listed and merged, and the merged result returned
MergeResults ==
    /\ planner.pc = "planned"
    /\ ~pool.returned
    /\ DOMAIN pool.slots = DOMAIN planner.chunks
    /\ LET results == executor_map(pool.slots, pool.completion)
       IN /\ pool' = [pool EXCEPT !.results = results, !.returned = TRUE]
          /\ merged' = merge_incident_results(results, OVERLAP_SEC)
    /\ UNCHANGED <<asset, planner, files>>

\* ---- TranscriptionAgent/src/sample.py: the same pipeline as a script ----

\* get_audio_chunks of sample.py up to the loop: no size test, every file is
\* exported in chunks
SamplePlanStart ==
    /\ planner.pc = "idle"
    /\ planner' = [planner EXCEPT
                     !.pc = "planning",
                     !.start = 0,
                     !.chunk_duration_ms =
                         chunk_duration_of(asset.file_size, asset.duration_ms,
                                           MAX_FILE_SIZE_MB),
                     !.overlap_ms = OVERLAP_SEC * 1000]
    /\ UNCHANGED <<asset, files, pool, merged>>

\* one pass of the while loop of sample.py: the chunk dict has no is_temp key
SamplePlanChunk ==
    /\ planner.pc = "planning"
    /\ Len(planner.chunks) < MaxChunks
    /\ IF planner.start < asset.duration_ms
       THEN LET start == planner.start
                end == Min(start + planner.chunk_duration_ms, asset.duration_ms)
                path == temp_file(Len(planner.chunks) + 1)
                chunk == [path |-> path, start_offset_ms |-> start]
            IN /\ files' = (path :> [from |-> start, to |-> end]) @@ files
               /\ planner' =
                     [planner EXCEPT
                        !.pc = IF end = asset.duration_ms THEN "planned" ELSE @,
                        !.chunks = Append(@, chunk),
                        !.exported = Append(@, [from |-> start, to |-> end]),
                        !.start = IF end = asset.duration_ms THEN @
                                  ELSE next_start(start, planner.chunk_duration_ms,
                                                  planner.overlap_ms)]
       ELSE /\ planner' = [planner EXCEPT !.pc = "planned"]
            /\ files' = files
    /\ UNCHANGED <<asset, pool, merged>>

\* what the call of a chunk leaves in the pool when it ends with an exception
raised_in_worker == [raised |-> "ProviderError"]

\* process_chunk of sample.py: try / finally without except, so the provider's
\* exception leaves the call
sample_process_chunk(chunk_data, i, reply) ==
    IF ~reply.ok
    THEN raised_in_worker
    ELSE LET res_dict == provider_response(i, reply.segs)
         IN [res_dict EXCEPT
               !.segments = offset_segments(@, chunk_data.start_offset_ms)]

\* finally of sample.py: the file at the chunk's path is removed if it exists
sample_remove_chunk_file(store, chunk_data) ==
    [p \in DOMAIN store \ {chunk_data.path} |-> store[p]]

\* a worker of the pool of sample.py finishes the call for chunk i
SampleProcessChunk(i) ==
    /\ planner.pc = "planned"
    /\ i \in DOMAIN planner.chunks
    /\ i \notin DOMAIN pool.slots
    /\ LET chunk_data == planner.chunks[i]
           length == files[chunk_data.path].to - files[chunk_data.path].from
       IN \E reply \in ProviderReplies(length) :
             /\ pool' = [pool EXCEPT
                           !.slots = (i :> sample_process_chunk(chunk_data, i, reply)) @@ @,
                           !.replies = (i :> reply) @@ @,
                           !.completion = Append(@, i)]
             /\ files' = sample_remove_chunk_file(files, chunk_data)
    /\ UNCHANGED <<asset, planner, merged>>

\* merge_incident_results of sample.py: the language without a default, and
\* the duration read with results[-1].get("segments", [{}])[-1], which raises
\* IndexError on an empty segment list
sample_merge_incident_results(results, overlap_sec) ==
    IF results = <<>>
    THEN NoResult
    ELSE IF Last(results).segments = <<>>
    THEN [raised |-> "IndexError"]
    ELSE merge_loop(results, 0, 0,
            [text |-> <<>>,
             segments |-> <<>>,
             language |-> results[1].language,
             duration |-> Last(Last(results).segments).end])

\* process_incident of sample.py once every call of the pool has finished:
\* list(executor.map(...)) raises the exception of the first call that ended
\* with one; else the results are merged
SampleMergeResults ==
    /\ planner.pc = "planned"
    /\ ~pool.returned
    /\ pool.raised = "none"
    /\ DOMAIN pool.slots = DOMAIN planner.chunks
    /\ IF \E i \in DOMAIN pool.slots : pool.slots[i] = raised_in_worker
       THEN /\ pool' = [pool EXCEPT !.raised = "ProviderError"]
            /\ merged' = merged
       ELSE LET results == executor_map(pool.slots, pool.completion)
                result == sample_merge_incident_results(results, OVERLAP_SEC)
            IN IF result = [raised |-> "IndexError"]
               THEN /\ pool' = [pool EXCEPT !.results = results,
                                            !.raised = "IndexError"]
                    /\ merged' = merged
               ELSE /\ pool' = [pool EXCEPT !.results = results,
                                            !.returned = TRUE]
                    /\ merged' = result
    /\ UNCHANGED <<asset, planner, files>>

\* ---- merge_incident_results on its own ----

\* the results one call of merge_incident_results is given at most
MaxResults == 3

\* the times, on the asset's timeline, of the segments of the results given
MergeTimes == {9000, 9600, 10000, 10200}

\* the segment lists over the given times: up to MaxSegments segments in time
\* order, none starting before the one before it ends
SegmentLists(times) ==
    LET Segs == {<<a, b>> \in times \X times : a < b}
    IN UNION {{s \in [1..n -> Segs] :
                  \A k \in 1..(n - 1) : s[k][2] <= s[k + 1][1]} : n \in 0..MaxSegments}

\* what the calls of process_chunk that made the given results got from the
\* provider: a response with segments on the asset's timeline, or an error
GivenReplies ==
    {[ok |-> TRUE, segs |-> segs] : segs \in SegmentLists(MergeTimes)}
        \cup {[ok |-> FALSE, segs |-> <<>>]}

\* the result list merge_incident_results is called with: result i is what
\* process_chunk returns for a chunk i whose times are the asset's already (a
\* provider response, or the tagged empty result)
GivenResults(replies) ==
    LET whole == [path |-> file_path, start_offset_ms |-> 0, is_temp |-> FALSE]
    IN [i \in DOMAIN replies |-> process_chunk(whole, i, replies[i])]

\* merge_incident_results(results, OVERLAP_SEC) on the results given
MergeGiven ==
    /\ ~pool.returned
    /\ merged' = merge_incident_results(pool.results, OVERLAP_SEC)
    /\ pool' = [pool EXCEPT !.returned = TRUE]
    /\ UNCHANGED <<asset, planner, files>>

----------------------------------------------------------------------------
(* The specifications *)

\* The stores outlive the process: the business store starts with the
\* inspections and with one incident of company 2 whose upload was accepted by
\* an earlier process (no checkpoint of it was ever written).
WorkflowInit ==
    /\ incidents = [i \in IncidentIds |->
                      IF i = 1
                      THEN [company_id |-> 2, inspection_id |-> "insp2",
                            video_url |-> file_url_of(0), audio_url |-> <<>>]
                      ELSE NoRow]
    /\ incident_tasks = [i \in IncidentIds |-> <<>>]
    /\ checkpoint = [i \in IncidentIds |-> NoCheckpoint]
    /\ runs = <<>>
    /\ response = no_response

\* process_incident is called with a file of any of the sizes and durations
PipelineInit ==
    /\ asset \in [file_size : FileSizes, duration_ms : Durations]
    /\ planner = idle_planner
    /\ files = (file_path :> [from |-> 0, to |-> asset.duration_ms])
    /\ pool = idle_pool
    /\ merged = NoResult

\* the workflow executor; no file is being transcribed
Init ==
    /\ WorkflowInit
    /\ asset = [file_size |-> 0, duration_ms |-> 0]
    /\ planner = idle_planner
    /\ files = <<>>
    /\ pool = idle_pool
    /\ merged = NoResult

Upload ==
    \E company_id \in Companies, inspection_id \in UploadInspections,
       existing_incident_id \in {0} \cup IncidentIds :
        handle_incident_upload(company_id, inspection_id, existing_incident_id)

Poll ==
    \E company_id \in Companies, incident_id \in IncidentIds :
        GetStatus(company_id, incident_id)

Next ==
    \/ Upload /\ UNCHANGED pipeline_vars
    \/ Poll /\ UNCHANGED pipeline_vars
    \/ (\E r \in DOMAIN runs : LoadCheckpoint(r)) /\ UNCHANGED pipeline_vars
    \/ (\E r \in DOMAIN runs : PutInputCheckpoint(r)) /\ UNCHANGED pipeline_vars
    \/ (\E r \in DOMAIN runs : RunStartNode(r)) /\ UNCHANGED pipeline_vars
    \/ (\E r \in DOMAIN runs : NodeSucceeds(r)) /\ UNCHANGED pipeline_vars
    \/ (\E r \in DOMAIN runs : NodeFails(r)) /\ UNCHANGED pipeline_vars

Spec == Init /\ [][Next]_vars

\* the event loop gives every task its turn: a run that can take a step (a
\* node function returns or raises, a checkpoint is written) takes one
Fairness ==
    \A r \in 1..MaxStarts :
        WF_vars((r \in DOMAIN runs /\ RunStep(r)) /\ UNCHANGED pipeline_vars)

LiveSpec == Init /\ [][Next]_vars /\ Fairness

\* one call of process_incident on one asset
TranscribeInit == WorkflowInit /\ PipelineInit

TranscribeNext ==
    \/ PlanStart /\ UNCHANGED workflow_vars
    \/ PlanChunk /\ UNCHANGED workflow_vars
    \/ ExportFails /\ UNCHANGED workflow_vars
    \/ (\E i \in 1..MaxChunks : ProcessChunk(i)) /\ UNCHANGED workflow_vars
    \/ MergeResults /\ UNCHANGED workflow_vars

TranscribeSpec == TranscribeInit /\ [][TranscribeNext]_vars

\* one call of get_audio_chunks on one asset, with any limit and overlap
PlanNext ==
    \/ PlanStartWith /\ UNCHANGED workflow_vars
    \/ PlanChunk /\ UNCHANGED workflow_vars

PlanSpec == TranscribeInit /\ [][PlanNext]_vars

\* one call of process_incident of sample.py on one asset
SampleNext ==
    \/ SamplePlanStart /\ UNCHANGED workflow_vars
    \/ SamplePlanChunk /\ UNCHANGED workflow_vars
    \/ (\E i \in 1..MaxChunks : SampleProcessChunk(i)) /\ UNCHANGED workflow_vars
    \/ SampleMergeResults /\ UNCHANGED workflow_vars

SampleSpec == TranscribeInit /\ [][SampleNext]_vars

\* one call of merge_incident_results on any list of results
MergeInit ==
    /\ WorkflowInit
    /\ asset = [file_size |-> 0, duration_ms |-> 0]
    /\ planner = idle_planner
    /\ files = <<>>
    /\ \E n \in 0..MaxResults :
          \E replies \in [1..n -> GivenReplies] :
              pool = [idle_pool EXCEPT !.results = GivenResults(replies)]
    /\ merged = NoResult

MergeNext == MergeGiven /\ UNCHANGED workflow_vars

MergeSpec == MergeInit /\ [][MergeNext]_vars

----------------------------------------------------------------------------
(* Properties *)

NodeOrder == <<EXTRACT_AUDIO_NODE, TRANSCRIBE_NODE, GENERATE_TASKS_NODE>>

IsPrefix(s, t) == Len(s) <= Len(t) /\ \A k \in 1..Len(s) : s[k] = t[k]

Range(s) == {s[k] : k \in DOMAIN s}

\* run has called the function of node n at least once
Invoked(run, n) ==
    \/ n \in Range(run.done)
    \/ run.node = n /\ run.pc \in {"in_node", "failed"}

\* r is the last run created for its thread
LatestOnThread(r) ==
    \A q \in DOMAIN runs : runs[q].thread = runs[r].thread => q <= r

\* C1: a start call made for an incident whose checkpoint is at transcribe does
\* not call extract_audio again: the execution it starts re-enters at
\* transcribe, the first node it calls.
C1_ResumeAtTranscribe ==
    \A r \in DOMAIN runs :
        runs[r].seen_transcribe =>
            /\ ~Invoked(runs[r], EXTRACT_AUDIO_NODE)
            /\ (runs[r].pc = "in_node" /\ runs[r].done = <<>>
                    => runs[r].node = TRANSCRIBE_NODE)

C3_EveryNodeRetried ==
    \A r \in DOMAIN runs :
        runs[r].pc = "failed" => runs[r].attempts = max_attempts

\* C3 amended: at transcribe and generate_tasks a failure of call 1 or 2 is
\* followed by another call of the same node, a success (on any call, the third
\* included) completes the node and moves the run to the next node, and only a
\* failure of call 3 ends the run; extract_audio has no retry policy: its first
\* failure ends the run.
C3_RetriedNodes ==
    [][\A r \in DOMAIN runs :
          LET run == runs[r]
              after == runs'[r]
              succeeded == /\ after.done = Append(run.done, run.node)
                           /\ after.node = next_node(run.node)
                           /\ after.pc = IF after.node = END THEN "completed"
                                         ELSE "in_node"
              retried == /\ after.pc = "in_node"
                         /\ after.node = run.node
                         /\ after.done = run.done
                         /\ after.attempts = run.attempts + 1
              gave_up == /\ after.pc = "failed"
                         /\ after.node = run.node
                         /\ after.done = run.done
                         /\ after.attempts = run.attempts
          IN (run.pc = "in_node" /\ after # run) =>
                /\ run.attempts \in 1..max_attempts
                /\ IF run.node \in {TRANSCRIBE_NODE, GENERATE_TASKS_NODE}
                   THEN \/ succeeded
                        \/ run.attempts < max_attempts /\ retried
                        \/ run.attempts = max_attempts /\ gave_up
                   ELSE /\ run.attempts = 1
                        /\ succeeded \/ gave_up]_vars

\* the third call of transcribe is under way: calls 1 and 2 have failed
C3_Witness ==
    \E r \in DOMAIN runs :
        /\ runs[r].pc = "in_node"
        /\ runs[r].node = TRANSCRIBE_NODE
        /\ runs[r].attempts = max_attempts

\* C4: once a node of a run has failed on every attempt, the node's function
\* has been called max_attempts times and the run's checkpoint is at the
\* terminal state failed.
C4_FailedIsRecorded ==
    \A r \in DOMAIN runs :
        (runs[r].pc = "failed" /\ LatestOnThread(r)) =>
            /\ runs[r].attempts = node_max_attempts(runs[r].node)
            /\ aget_state(runs[r].thread).next = <<"failed">>

\* C5: get_status, asked by the owner about a run whose node exhausted its
\* retries, returns (without raising) a status of failed.
C5_FailedIsQueryable ==
    \A r \in DOMAIN runs :
        (runs[r].pc = "failed" /\ LatestOnThread(r)) =>
            LET status == get_status(runs[r].input.company_id, runs[r].thread)
            IN status.kind = "ok" /\ status.status = "failed"

\* C6: for the owner of an incident, get_status maps the checkpoint to the
\* status: no checkpoint gives queued; the terminal node with a non-empty state
\* gives completed; otherwise the status is the node pointer, with the message
\* of the table for a node of the graph and the generic message for any other;
\* is_finished exactly when the status is completed.
C6_StatusMapping ==
    \A c \in Companies, i \in IncidentIds :
        get_incident_progress(c, i) =>
            LET status == get_status(c, i)
                cp == checkpoint[i]
            IN /\ status.kind = "ok"
               /\ status.incident_id = i
               /\ cp = NoCheckpoint => status.status = "queued"
               /\ (cp # NoCheckpoint /\ cp.next = <<>>) =>
                      /\ cp.values # EmptyState
                      /\ status.status = "completed"
               /\ (cp # NoCheckpoint /\ cp.next # <<>>) =>
                      /\ status.status = cp.next[1]
                      /\ cp.next[1] = EXTRACT_AUDIO_NODE =>
                            status.display_message = "Extracting audio from video..."
                      /\ cp.next[1] = TRANSCRIBE_NODE =>
                            status.display_message = "AI is transcribing speech..."
                      /\ cp.next[1] = GENERATE_TASKS_NODE =>
                            status.display_message = "Generating inspection tasks..."
                      /\ cp.next[1] \notin Nodes =>
                            status.display_message = "Processing..."
               /\ status.is_finished <=> (status.status = "completed")
               /\ status.is_finished <=> (cp # NoCheckpoint /\ cp.next = <<>>)

\* a poll has just been answered with the status of a checkpoint at a node the
\* table does not map
C6_Witness ==
    /\ response.op = "status"
    /\ response.http.code = 200
    /\ response.http.body.status = START
    /\ response.http.body.display_message = "Processing..."

\* C7: what get_status and its endpoint give a company asking about an incident
\* of another company is what they give for an incident that does not exist,
\* whatever the checkpoint of the other company's run: the permission error,
\* 403 Forbidden.
C7_NoExistenceLeak ==
    \A c \in Companies, i \in IncidentIds, j \in IncidentIds :
        (/\ incidents[i] # NoRow
         /\ incidents[i].company_id # c
         /\ incidents[j] = NoRow) =>
            /\ get_status(c, i) = get_status(c, j)
            /\ get_status(c, i) = PermissionError
            /\ get_status_endpoint(c, i) = get_status_endpoint(c, j)
            /\ get_status_endpoint(c, i).code = 403

\* company 2 has just been refused while a run of company 1 is past its first
\* node and an incident id that does not exist is there to compare with
C7_Witness ==
    /\ response.op = "status"
    /\ response.company_id = 2
    /\ response.http.code = 403
    /\ \E i \in IncidentIds :
          /\ incidents[i] # NoRow
          /\ incidents[i].company_id = 1
          /\ checkpoint[i] # NoCheckpoint
          /\ checkpoint[i].next = <<TRANSCRIBE_NODE>>
    /\ \E j \in IncidentIds : incidents[j] = NoRow

\* C8 as stated: when handle_incident_upload returns the incident id, a
\* checkpoint of that incident is in the checkpoint store.
C8_CheckpointAtReturn ==
    (response.op = "upload" /\ response.result = "ok") =>
        checkpoint[response.incident_id] # NoCheckpoint

\* C8 amended: when handle_incident_upload returns the incident id, the
\* incident's row is in the business store and the background execution is
\* scheduled but has written nothing: a new incident has no checkpoint yet and
\* its status is queued.  The first checkpoint is written by the background
\* execution, before it calls any node.
C8_RecordThenSchedule ==
    /\ (response.op = "upload" /\ response.result = "ok") =>
          LET r == Len(runs)
              i == response.incident_id
          IN /\ r >= 1
             /\ runs[r].thread = i
             /\ runs[r].pc = "scheduled"
             /\ row_visible(runs[r].input.company_id, i)
             /\ (\A q \in DOMAIN runs : runs[q].thread = i => q = r) =>
                    /\ checkpoint[i] = NoCheckpoint
                    /\ get_status(runs[r].input.company_id, i).status = "queued"
    /\ \A r \in DOMAIN runs :
          /\ row_visible(runs[r].input.company_id, runs[r].thread)
          /\ runs[r].pc \notin {"scheduled", "loaded"} =>
                checkpoint[runs[r].thread] # NoCheckpoint

\* an upload of a new incident has just returned
C8_Witness ==
    /\ response.op = "upload"
    /\ response.result = "ok"
    /\ checkpoint[response.incident_id] = NoCheckpoint
    /\ runs[Len(runs)].pc = "scheduled"

\* C9: handle_incident_upload returns with none of the new run's nodes called,
\* and it can return whatever the other runs are doing: a run whose node
\* function never returns does not keep an upload from being accepted.
C9_StartNeverWaits ==
    /\ (response.op = "upload" /\ response.result = "ok") =>
          /\ response.node_work = 0
          /\ runs[Len(runs)].pc = "scheduled"
    /\ Len(runs) < MaxStarts =>
          ENABLED handle_incident_upload(1, "insp1", 0)

\* an upload has just returned while an earlier run is inside a node function
C9_Witness ==
    /\ response.op = "upload"
    /\ response.result = "ok"
    /\ \E r \in DOMAIN runs : runs[r].pc = "in_node"

Executing(i) ==
    {r \in DOMAIN runs : runs[r].thread = i /\ runs[r].pc = "in_node"}

\* C11: for every incident, at most one run is inside a node function at any
\* time.
C11_OneNodePerIncident ==
    \A i \in IncidentIds : Cardinality(Executing(i)) <= 1

BelowLimit == asset.file_size < MAX_FILE_SIZE_MB * MB

\* get_audio_chunks has returned its chunks
Planned == planner.pc = "planned"

\* C13: for an asset below the size limit get_audio_chunks returns exactly one
\* chunk: it starts at offset 0, it is not temporary, its path is the asset's
\* own file, which holds the whole audio [0, duration_ms), and nothing was
\* exported.
C13_SmallAssetOneChunk ==
    (Planned /\ BelowLimit) =>
        /\ Len(planner.chunks) = 1
        /\ planner.chunks[1].start_offset_ms = 0
        /\ ~planner.chunks[1].is_temp
        /\ planner.chunks[1].path = file_path
        /\ files[file_path] = [from |-> 0, to |-> asset.duration_ms]
        /\ planner.exported = <<>>

C13_Witness ==
    /\ Planned
    /\ BelowLimit
    /\ planner.chunks = single_chunk(file_path)

\* C14: for an asset at or above the limit the returned chunks cover
\* [0, duration_ms) without a gap: the first starts at 0, the last ends at
\* duration_ms, and each starts no later than the one before it ends.  Every
\* chunk's offset is the start of the stretch exported for it.
C14_CoverageNoGap ==
    (Planned /\ ~BelowLimit) =>
        LET n == Len(planner.chunks)
        IN /\ n >= 1
           /\ Len(planner.exported) = n
           /\ \A k \in 1..n :
                 /\ planner.chunks[k].start_offset_ms = planner.exported[k].from
                 /\ planner.exported[k].from < planner.exported[k].to
           /\ planner.exported[1].from = 0
           /\ planner.exported[n].to = asset.duration_ms
           /\ \A k \in 1..(n - 1) :
                 planner.exported[k + 1].from <= planner.exported[k].to

\* three chunks have been returned for an asset above the limit
C14_Witness ==
    /\ Planned
    /\ ~BelowLimit
    /\ Len(planner.chunks) = 3

\* C15: for an asset at or above the limit every chunk but the last is
\* chunk_duration_ms long, the last is no longer than that, and each chunk
\* starts exactly OVERLAP_SEC seconds before the one before it ends.
C15_ExactOverlap ==
    (Planned /\ ~BelowLimit) =>
        LET n == Len(planner.exported)
            length(k) == planner.exported[k].to - planner.exported[k].from
        IN /\ \A k \in 1..(n - 1) :
                 /\ planner.exported[k].to - planner.exported[k + 1].from
                       = OVERLAP_SEC * 1000
                 /\ length(k) = planner.chunk_duration_ms
           /\ n >= 1 => length(n) <= planner.chunk_duration_ms

\* the chunks returned end with one that is shorter than the others
C15_Witness ==
    /\ Planned
    /\ ~BelowLimit
    /\ Len(planner.exported) >= 2
    /\ Last(planner.exported).to - Last(planner.exported).from
          < planner.chunk_duration_ms

\* C16: the planning loop is never run with a step of zero or less (the call
\* fails with a configuration error instead), and every pass of the loop either
\* ends it or moves start forward, so that it ends after finitely many passes.
C16_PlanningTerminates ==
    [][planner.pc = "planning" =>
          /\ planner.chunk_duration_ms - planner.overlap_ms > 0
          /\ planner' # planner =>
                \/ planner'.pc \in {"planned", "raised"}
                \/ planner'.start > planner.start]_vars

\* C17: for an asset at or above the limit get_audio_chunks returns more than
\* one chunk.
C17_LargeAssetManyChunks ==
    (Planned /\ asset.file_size >= MAX_FILE_SIZE_MB * MB) =>
        Len(planner.chunks) > 1

\* chunks have been returned for an asset of exactly the limit
C17_Witness ==
    /\ Planned
    /\ asset.file_size = MAX_FILE_SIZE_MB * MB
    /\ Len(planner.chunks) > 1

\* C18: the list handed to the merger has the result of chunk i at place i,
\* whatever order the calls finished in, and the merged transcript is the merge
\* of the results in chunk order: it does not depend on the completion order.
C18_ResultsInChunkOrder ==
    pool.returned =>
        LET n == Len(planner.chunks)
            in_order == [i \in 1..n |-> pool.slots[i]]
        IN /\ Len(pool.results) = n
           /\ \A i \in 1..n :
                 /\ pool.results[i] = pool.slots[i]
                 /\ \A k \in DOMAIN pool.results[i].segments :
                       pool.results[i].segments[k].text = <<i, k>>
           /\ merged = merge_incident_results(in_order, OVERLAP_SEC)

\* the results of calls that finished last-chunk-first have been merged, and
\* listing them in completion order would have given another list
C18_Witness ==
    /\ pool.returned
    /\ Len(pool.completion) = 3
    /\ pool.completion = <<3, 2, 1>>
    /\ as_completed(pool.slots, pool.completion) # pool.results
    /\ merged.segments # <<>>

\* the first segment of the second result, when the first result's last
\* segment ends at 10.2 s
C19_Case ==
    /\ pool.returned
    /\ Len(pool.results) >= 2
    /\ pool.results[1].segments # <<>>
    /\ Last(pool.results[1].segments).end = 10200
    /\ pool.results[2].segments # <<>>

\* C19 as stated: when chunk 1's last segment ends at 10.2 s, a first segment
\* of chunk 2 that starts at 10.0 s is dropped and one that starts at 10.9 s is
\* kept.
C19_DropsStartInsideOverlap ==
    C19_Case =>
        LET first == pool.results[2].segments[1]
        IN /\ first.start = 10000 => first \notin Range(merged.segments)
           /\ first.start = 10900 => first \in Range(merged.segments)

\* C19 amended: when chunk 1's last segment ends at 10.2 s, the first segment
\* of chunk 2 is dropped exactly when it starts before 9.7 s (10.2 s less the
\* 0.5 s buffer): one that starts at 10.0 s or at 10.9 s is kept, one that
\* starts at 9.6 s is dropped.
C19_DropsStartBeforeBuffer ==
    C19_Case =>
        LET first == pool.results[2].segments[1]
        IN /\ first \in Range(merged.segments) <=> first.start >= 10200 - BUFFER_MS
           /\ first.start = 10000 => first \in Range(merged.segments)
           /\ first.start = 10900 => first \in Range(merged.segments)
           /\ first.start = 9600 => first \notin Range(merged.segments)

\* chunk 1's last segment ends at 10.2 s, chunk 2's first starts at 10.0 s, and
\* the merge has kept it
C19_Witness ==
    /\ C19_Case
    /\ pool.results[2].segments[1].start = 10000
    /\ pool.results[2].segments[1] \in Range(merged.segments)

\* C20 as stated: in the merged result the segments are strictly ordered by
\* start time and each starts at or after the end of the one before it.
C20_OrderedNoOverlap ==
    pool.returned =>
        \A k \in 1..(Len(merged.segments) - 1) :
            /\ merged.segments[k].start < merged.segments[k + 1].start
            /\ merged.segments[k].end <= merged.segments[k + 1].start

\* C20 amended: in the merged result each segment starts no earlier than 0.5 s
\* before the end of the one before it; two segments of the same chunk do not
\* overlap and are in start order.
C20_OverlapWithinBuffer ==
    pool.returned =>
        \A k \in 1..(Len(merged.segments) - 1) :
            LET seg == merged.segments[k]
                nxt == merged.segments[k + 1]
            IN /\ nxt.start >= seg.end - BUFFER_MS
               /\ seg.text[1] = nxt.text[1] =>
                     /\ seg.start < nxt.start
                     /\ seg.end <= nxt.start

\* a merged result in which a segment of the second chunk starts before the
\* end of the segment before it, which is of the first chunk
C20_Witness ==
    /\ pool.returned
    /\ \E k \in 1..(Len(merged.segments) - 1) :
          /\ merged.segments[k].text[1] = 1
          /\ merged.segments[k + 1].text[1] = 2
          /\ merged.segments[k + 1].start < merged.segments[k].end

\* the places of the given results that hold a segment
WithSegments == {i \in DOMAIN pool.results : pool.results[i].segments # <<>>}

\* C21 as stated: the duration of the merged result is the end of the last
\* segment of the last chunk, also when the last result is empty or tagged with
\* an error (the last chunk that has a segment then), and also when that
\* segment was dropped by the merge.
C21_DurationIsLastEnd ==
    (pool.returned /\ WithSegments # {}) =>
        LET last == CHOOSE i \in WithSegments : \A j \in WithSegments : j <= i
        IN merged.duration = Last(pool.results[last].segments).end

Errored == {i \in DOMAIN pool.replies : ~pool.replies[i].ok}

\* process_incident has ended: it returned or it raised
Ended == pool.returned \/ pool.raised # "none"

\* C23: once the chunks are planned, the pipeline raises a hard failure if and
\* only if the transcription of every chunk errored; when at least one chunk
\* succeeded it returns the merged result without raising.
C23_RaisesIffAllErrored ==
    (planner.pc = "planned" /\ Ended) =>
        (pool.raised # "none" <=> Errored = DOMAIN planner.chunks)

\* the results with the tagged result of chunk i replaced by the response of a
\* provider that succeeded and heard no speech
with_silent_success(results, i) ==
    [results EXCEPT ![i] = provider_response(i, <<>>)]

\* C24: when the pipeline returns a merged result and the transcription of
\* some chunk errored, the returned result differs from the result of the
\* batch in which that chunk succeeded with no speech, so the caller can tell
\* that a chunk carried an error tag.
C24_ErrorTagVisible ==
    pool.returned =>
        \A i \in Errored :
            merged # merge_incident_results(with_silent_success(pool.results, i),
                                            OVERLAP_SEC)

\* C25: for every chunk marked is_temp, once process_chunk has exited, after
\* a provider success and after a provider failure alike, the chunk's
\* temporary file no longer exists.
C25_TempFileReleased ==
    \A i \in DOMAIN pool.slots :
        planner.chunks[i].is_temp => planner.chunks[i].path \notin DOMAIN files

\* two temporary chunks were processed, one call succeeded and one raised,
\* while the file of a chunk still waiting is there
C25_Witness ==
    /\ \E i, j \in DOMAIN pool.slots :
          /\ planner.chunks[i].is_temp /\ planner.chunks[j].is_temp
          /\ pool.replies[i].ok /\ ~pool.replies[j].ok
    /\ \E k \in DOMAIN planner.chunks \ DOMAIN pool.slots :
          planner.chunks[k].path \in DOMAIN files

\* C26: on provider success process_chunk returns every segment with start
\* and end each increased by exactly the chunk's start offset and nothing else
\* changed; the order and the number of the segments are kept.
C26_SegmentsShiftedByOffset ==
    \A i \in DOMAIN pool.slots :
        pool.replies[i].ok =>
            LET res_dict == provider_response(i, pool.replies[i].segs)
                given == res_dict.segments
                got == pool.slots[i].segments
                offset == planner.chunks[i].start_offset_ms
            IN /\ DOMAIN pool.slots[i] = DOMAIN res_dict
               /\ \A f \in DOMAIN res_dict \ {"segments"} :
                     pool.slots[i][f] = res_dict[f]
               /\ Len(got) = Len(given)
               /\ \A k \in 1..Len(given) :
                     /\ DOMAIN got[k] = DOMAIN given[k]
                     /\ got[k].start = given[k].start + offset
                     /\ got[k].end = given[k].end + offset
                     /\ \A f \in DOMAIN given[k] \ {"start", "end"} :
                           got[k][f] = given[k][f]

\* a chunk that starts after the beginning of the asset came back with two
\* segments
C26_Witness ==
    \E i \in DOMAIN pool.slots :
        /\ pool.replies[i].ok
        /\ planner.chunks[i].start_offset_ms > 0
        /\ Len(pool.slots[i].segments) >= 2

\* the segments merged from the first n of the results
kept_after(results, n) ==
    IF n = 0 THEN <<>>
    ELSE merge_incident_results(SubSeq(results, 1, n), OVERLAP_SEC).segments

\* the end of the last segment that survived in the first n results, 0 if none
last_end_after(results, n) ==
    IF kept_after(results, n) = <<>> THEN 0 ELSE Last(kept_after(results, n)).end

\* C27: the merger filters against a running global last_end_time: it is 0 at
\* first, and after each chunk it is the end of the last segment that survived
\* over all the chunks so far; chunk 0 keeps all its segments, a segment of a
\* chunk i > 0 is dropped exactly when it starts before last_end_time - 0.5 s,
\* and a chunk with an empty result or without a surviving segment leaves
\* last_end_time and the merged segments as they were.
C27_RunningGlobalLastEnd ==
    pool.returned /\ pool.results # <<>> =>
        /\ merged.segments = kept_after(pool.results, Len(pool.results))
        /\ \A n \in 0..(Len(pool.results) - 1) :
              LET last_end_time == last_end_after(pool.results, n)
                  survivors ==
                      SelectSeq(pool.results[n + 1].segments,
                                LAMBDA seg :
                                    n = 0 \/ seg.start >= last_end_time - BUFFER_MS)
              IN /\ kept_after(pool.results, n + 1)
                      = kept_after(pool.results, n) \o survivors
                 /\ survivors = <<>> =>
                      last_end_after(pool.results, n + 1) = last_end_time

\* three results were merged: the second is empty, and a segment of the third
\* is dropped against the end of the first
C27_Witness ==
    /\ pool.returned
    /\ Len(pool.results) = 3
    /\ pool.results[1].segments # <<>>
    /\ pool.results[2].segments = <<>>
    /\ \E k \in DOMAIN pool.results[3].segments :
          pool.results[3].segments[k].start
              < Last(pool.results[1].segments).end - BUFFER_MS
    /\ merged.segments = pool.results[1].segments

\* C28: the chunk start times get_audio_chunks returns are strictly
\* increasing with the chunk index, for every asset, size limit and overlap
\* for which planning returns.
C28_StartsStrictlyIncrease ==
    planner.pc = "planned" =>
        \A i, j \in DOMAIN planner.chunks :
            i < j => planner.chunks[i].start_offset_ms
                        < planner.chunks[j].start_offset_ms

\* planning returned three chunks or more with an overlap other than the
\* default one
C28_Witness ==
    /\ planner.pc = "planned"
    /\ Len(planner.chunks) >= 3
    /\ planner.overlap_ms # OVERLAP_SEC * 1000

\* incident i has a run
Started(i) == \E r \in DOMAIN runs : runs[r].thread = i

\* C29: every started run eventually reaches a terminal state: when every
\* node call returns or fails and the runs are scheduled fairly, the run of an
\* incident is eventually recorded as completed or failed; it does not stay at
\* a node forever.
C29_RunsReachTerminal ==
    \A i \in IncidentIds :
        Started(i) ~> (status_of(i).status \in {"completed", "failed"})

\* the executions themselves all end: every task is eventually past its last
\* step, by the return of the graph or by the exception of a node
TasksEnd ==
    \A r \in 1..MaxStarts :
        (r \in DOMAIN runs) ~>
            (r \in DOMAIN runs /\ runs[r].pc \in {"completed", "failed"})

\* the runs that took a step
Moved == {r \in DOMAIN runs : runs'[r] # runs[r]}

\* C30: the runs are partitioned by incident_id: a start call or a node
\* execution for one incident leaves the checkpoint (node pointer and state),
\* the row and the tasks of every other incident unchanged, the checkpoint of
\* a thread holds the state of its own incident only, and no run waits for a
\* run of another incident: a run that has not ended can always take its step.
C30_PartitionedByIncident ==
    [][/\ \A r \in Moved :
             \A i \in IncidentIds \ {runs[r].thread} :
                 /\ checkpoint'[i] = checkpoint[i]
                 /\ incidents'[i] = incidents[i]
                 /\ incident_tasks'[i] = incident_tasks[i]
       /\ \A r \in Moved : \A q \in DOMAIN runs \ {r} : runs'[q] = runs[q]
       /\ Moved = {} => checkpoint' = checkpoint
       /\ Len(runs') > Len(runs) =>
             /\ Moved = {}
             /\ \A i \in IncidentIds \ {Last(runs').thread} :
                   incidents'[i] = incidents[i]
       /\ \A i \in IncidentIds :
             (checkpoint'[i] # NoCheckpoint /\ checkpoint'[i].values # EmptyState)
                 => checkpoint'[i].values.incident_id = i
       /\ \A r \in DOMAIN runs :
             runs[r].pc \notin {"completed", "failed"} => ENABLED RunStep(r)
      ]_vars

\* two incidents are each inside a node function, at different nodes, each
\* with its own checkpoint
C30_Witness ==
    \E r, q \in DOMAIN runs :
        /\ runs[r].thread # runs[q].thread
        /\ runs[r].pc = "in_node" /\ runs[q].pc = "in_node"
        /\ checkpoint[runs[r].thread].next = <<TRANSCRIBE_NODE>>
        /\ checkpoint[runs[q].thread].next = <<EXTRACT_AUDIO_NODE>>
        /\ checkpoint[runs[r].thread].values.incident_id = runs[r].thread
        /\ checkpoint[runs[q].thread].values.incident_id = runs[q].thread

\* the delta the step of run r merges into the state: the input of the start
\* call in superstep 0, the return value of the node function after a node
step_delta(r) ==
    CASE runs[r].pc = "input" -> runs[r].input
      [] runs[r].pc = "in_node" /\ runs'[r].done # runs[r].done ->
            node_delta(runs[r].node, runs[r].channels)
      [] OTHER -> EmptyState

\* C31: state deltas are merged per field with the declared policy: after any
\* node execution or start call the previous content of generated_tasks in the
\* incident's checkpointed state is a prefix of its new content, every other
\* field of the delta is overwritten with the delta's value, and the fields
\* absent from the delta are unchanged.
C31_MergePolicy ==
    [][\A r \in Moved :
          LET i == runs[r].thread
              old == aget_state(i).values
              new == checkpoint'[i].values
              delta == step_delta(r)
          IN checkpoint'[i] # checkpoint[i] =>
                /\ DOMAIN old \subseteq DOMAIN new
                /\ "generated_tasks" \in DOMAIN old =>
                      IsPrefix(old.generated_tasks, new.generated_tasks)
                /\ \A k \in (DOMAIN delta \cap StateFields) \ AppendFields :
                      new[k] = delta[k]
                /\ \A k \in DOMAIN old \ DOMAIN delta : new[k] = old[k]
      ]_vars

\* C32: every key a node returns in its delta is a declared field of
\* IncidentState, so no node output is lost in the merge: the state transcribe
\* reads after extract_audio holds the audio path extract_audio produced.
C32_NoNodeOutputLost ==
    \A r \in DOMAIN runs :
        /\ runs[r].pc = "in_node" =>
              DOMAIN node_delta(runs[r].node, runs[r].channels) \subseteq StateFields
        /\ (runs[r].pc = "in_node" /\ runs[r].node = TRANSCRIBE_NODE
            /\ EXTRACT_AUDIO_NODE \in Range(runs[r].done)) =>
              /\ "audio_path" \in DOMAIN runs[r].channels
              /\ runs[r].channels.audio_path = audio_path_of(runs[r].thread)

\* the place of a status in the order queued, extract_audio, transcribe,
\* generate_tasks, completed; the status of a checkpoint at __start__ (the
\* input is saved, the entry node not yet reached) stands with queued
status_rank(status_key) ==
    CASE status_key = "queued" -> 0
      [] status_key = START -> 0
      [] status_key = EXTRACT_AUDIO_NODE -> 1
      [] status_key = TRANSCRIBE_NODE -> 2
      [] status_key = GENERATE_TASKS_NODE -> 3
      [] OTHER -> 4

\* C33: the status that get_status reports for an incident never moves
\* backward in the order queued, extract_audio, transcribe, generate_tasks,
\* completed, whatever start calls and node executions happen: the status a
\* poll would get after a step is not earlier than the one it would get before.
C33_StatusNeverMovesBack ==
    [][\A i \in IncidentIds :
          status_rank(status_of(i).status)' >= status_rank(status_of(i).status)
      ]_vars

\* C34: the generated tasks of an incident are committed to the business
\* store at most once, whatever node retries and repeated start calls for the
\* incident happen: the incident's rows are the tasks of one commit at most.
C34_TasksCommittedOnce ==
    \A i \in IncidentIds : Len(incident_tasks[i]) <= Len(SAMPLE_TASKS)

\* C35: a call of handle_incident_upload that fails an ownership check (the
\* inspection is not the company's, or the incident supplied is not the
\* company's) raises a permission error and has no effect: the step that
\* answers with the error changes no incident record, no checkpoint and no run,
\* and every step that creates a record or starts an execution was made by the
\* owner of the inspection and, for an incident supplied, of the incident.
C35_DeniedUploadHasNoEffect ==
    [][/\ (response'.op = "upload" /\ response'.result = "PermissionError") =>
             UNCHANGED <<incidents, incident_tasks, checkpoint, runs>>
       /\ Len(runs') > Len(runs) =>
             LET input == Last(runs').input
             IN /\ verify_inspection_ownership(input.company_id, input.inspection_id)
                /\ incidents[input.incident_id] # NoRow =>
                      verify_incident_ownership(input.company_id, input.incident_id)
                /\ response'.op = "upload" /\ response'.result = "ok"
       /\ (\E i \in IncidentIds : incidents[i] = NoRow /\ incidents'[i] # NoRow) =>
             Len(runs') > Len(runs)
      ]_vars

\* a call has just been refused while the stores hold incidents, a checkpoint
\* and a run that a refused call could have touched
C35_Witness ==
    /\ response.op = "upload"
    /\ response.result = "PermissionError"
    /\ runs # <<>>
    /\ \E i \in IncidentIds : checkpoint[i] # NoCheckpoint

\* C36: once the pipeline has returned or raised, whatever the outcome, a
\* failure part-way through planning or export included, no temporary chunk
\* file made by get_audio_chunks for the asset remains.
C36_NoTempFileRemains ==
    Ended => DOMAIN files \subseteq {file_path}

\* the asset's own file is there, whole
OriginalKept ==
    /\ file_path \in DOMAIN files
    /\ files[file_path] = [from |-> 0, to |-> asset.duration_ms]

\* C37: transcription never deletes the original audio asset: the asset's file
\* exists in every state, and a chunk that is not temporary (the single chunk
\* of a small file) still exists after process_chunk has exited, after a
\* provider success and after a provider failure.
C37_OriginalNeverDeleted ==
    /\ OriginalKept
    /\ \A i \in DOMAIN pool.slots :
          ~planner.chunks[i].is_temp => planner.chunks[i].path \in DOMAIN files

\* the call for the single chunk of a small file has ended with a provider
\* failure
C37_Witness ==
    /\ planner.chunks = single_chunk(file_path)
    /\ 1 \in DOMAIN pool.slots
    /\ ~pool.replies[1].ok
    /\ pool.slots[1] = error_result

\* the length of the audio exported for chunk i
chunk_length(i) == planner.exported[i].to - planner.exported[i].from

\* C38: for every asset of size S at or above the limit M, no chunk returned
\* by get_audio_chunks is longer than chunk_duration_ms, which is 0.9 * M /
\* (S / D) truncated to an integer, so the estimated size of every chunk (its
\* length times S / D) is at most 0.9 * M.  Sizes are in MB and both sides are
\* multiplied by 10 * D.
C38_ChunkSizeWithinMargin ==
    (planner.pc = "planned" /\ planner.max_size_mb > 0
     /\ asset.file_size >= planner.max_size_mb * MB) =>
        LET S == asset.file_size \div MB
            M == planner.max_size_mb
            D == asset.duration_ms
        IN /\ planner.chunk_duration_ms * S * 10 <= 9 * M * D
           /\ (planner.chunk_duration_ms + 1) * S * 10 > 9 * M * D
           /\ Len(planner.exported) = Len(planner.chunks)
           /\ \A i \in DOMAIN planner.chunks :
                 /\ chunk_length(i) <= planner.chunk_duration_ms
                 /\ chunk_length(i) * S * 10 <= 9 * M * D

\* planning returned several chunks for an asset above the limit, the first as
\* long as chunk_duration_ms, where the estimate was truncated
C38_Witness ==
    /\ planner.pc = "planned"
    /\ planner.max_size_mb > 0
    /\ asset.file_size > planner.max_size_mb * MB
    /\ Len(planner.chunks) >= 2
    /\ chunk_length(1) = planner.chunk_duration_ms
    /\ planner.chunk_duration_ms * (asset.file_size \div MB) * 10
          < 9 * planner.max_size_mb * asset.duration_ms

====
